---- MODULE Spec2Model ----
(***************************************************************************)
(* Model of src/convert.rs of s2-grpc-utils: the S2ProtoPack/S2ProtoUnpack *)
(* conversions between native values and protobuf wire values.             *)
(*                                                                         *)
(* Every conversion is a pure function; the state machine records the last *)
(* conversion call (implementation, direction, argument, outcome) and the  *)
(* call before it when the argument was that call's result, so that round  *)
(* trips are behaviours of the model.                                      *)
(*                                                                         *)
(* Bytes and characters are one-character strings, byte strings and Rust   *)
(* Strings are sequences of them.                                          *)
(***************************************************************************)
EXTENDS Integers, Sequences, FiniteSets, TLC

VARIABLES last, prev, chrono

vars == <<last, prev, chrono>>

(***************************************************************************)
(* Result<T, result::Error>, Option<T>, and a panic (unwinding) outcome.   *)
(***************************************************************************)
Ok(v) == [r |-> "Ok", v |-> v]

Err(e) == [r |-> "Err", e |-> e]

Panic == [r |-> "Panic"]

None == [some |-> FALSE]

Some(v) == [some |-> TRUE, v |-> v]

\* result::Error::Json { source }: the serde_json error, by its category.
JsonError(cause) == [kind |-> "Json", cause |-> cause]

\* result::Error::JsonTypeUrlUnknown { type_url }
JsonTypeUrlUnknown(type_url) == [kind |-> "JsonTypeUrlUnknown", type_url |-> type_url]

\* result::Error::ValueNotPresent
ValueNotPresent == [kind |-> "ValueNotPresent"]

(***************************************************************************)
(* serde_json::Value.  A Number is PosInt, NegInt or Float as in           *)
(* serde_json; a Float is the decimal mant * 10^exp (sign apart) with mant *)
(* free of trailing zeros, which for the short decimals of the model names *)
(* exactly one f64.  An Object is serde_json's BTreeMap: a sequence of     *)
(* <<key, value>> pairs in strictly increasing key order.                  *)
(***************************************************************************)
Null == [t |-> "Null"]

Bool(b) == [t |-> "Bool", b |-> b]

PosInt(n) == [t |-> "Number", k |-> "PosInt", n |-> n]

NegInt(n) == [t |-> "Number", k |-> "NegInt", n |-> n]

RECURSIVE Pow10(_)
Pow10(k) == IF k = 0 THEN 1 ELSE 10 * Pow10(k - 1)

RECURSIVE NormFloat(_, _, _)
NormFloat(neg, mant, exp) ==
  IF mant = 0 THEN [t |-> "Number", k |-> "Float", neg |-> neg, mant |-> 0, exp |-> 0]
  ELSE IF mant % 10 = 0 THEN NormFloat(neg, mant \div 10, exp + 1)
  ELSE [t |-> "Number", k |-> "Float", neg |-> neg, mant |-> mant, exp |-> exp]

Float(neg, mant, exp) == NormFloat(neg, mant, exp)

String(s) == [t |-> "String", s |-> s]

Array(a) == [t |-> "Array", a |-> a]

Object(m) == [t |-> "Object", m |-> m]

(***************************************************************************)
(* Characters.                                                             *)
(***************************************************************************)
DigitChars == <<"0", "1", "2", "3", "4", "5", "6", "7", "8", "9">>

IsDigit(c) == \E i \in 1..10 : DigitChars[i] = c

DigitVal(c) == (CHOOSE i \in 1..10 : DigitChars[i] = c) - 1

Whitespace == {" ", "\n", "\t", "\r"}

\* The model's characters in code point order (backspace is written "U+0008"), the order String's Ord (hence
\* BTreeMap) uses.
CharOrder ==
  <<"U+0008", "\t", "\n", "\f", "\r", " ", "\"", "+", ",", "-", ".", "/",
    "0", "1", "2", "3", "4", "5", "6", "7", "8", "9", ":", "E",
    "[", "\\", "]", "a", "b", "e", "f", "l", "n", "r", "s", "t", "u", "x",
    "{", "}">>

CharRank(c) == CHOOSE i \in 1..Len(CharOrder) : CharOrder[i] = c

\* A control character (below U+0020).
IsControl(c) == c \in {"U+0008", "\t", "\n", "\f", "\r"}

RECURSIVE StrLess(_, _)
StrLess(x, y) ==
  IF y = <<>> THEN FALSE
  ELSE IF x = <<>> THEN TRUE
  ELSE IF Head(x) = Head(y) THEN StrLess(Tail(x), Tail(y))
  ELSE CharRank(Head(x)) < CharRank(Head(y))

\* BTreeMap::insert: the value of an existing key is replaced, a new key is
\* put at its place in key order.
RECURSIVE MapInsert(_, _, _)
MapInsert(m, key, v) ==
  IF m = <<>> THEN <<(<<key, v>>)>>
  ELSE IF Head(m)[1] = key THEN <<(<<key, v>>)>> \o Tail(m)
  ELSE IF StrLess(key, Head(m)[1]) THEN <<(<<key, v>>)>> \o m
  ELSE <<Head(m)>> \o MapInsert(Tail(m), key, v)

\* Map::get
MapHas(m, key) == \E i \in 1..Len(m) : m[i][1] = key

MapGet(m, key) == m[CHOOSE i \in 1..Len(m) : m[i][1] = key][2]

(***************************************************************************)
(* serde_json::to_vec(&Value): the compact JSON text of a Value.           *)
(***************************************************************************)
RECURSIVE itoa(_)
itoa(n) == IF n < 10 THEN <<DigitChars[n + 1]>> ELSE itoa(n \div 10) \o <<DigitChars[(n % 10) + 1]>>

\* The k low decimal digits of n, zero padded.
RECURSIVE FracDigits(_, _)
FracDigits(n, k) ==
  IF k = 0 THEN <<>> ELSE FracDigits(n \div 10, k - 1) \o <<DigitChars[(n % 10) + 1]>>

\* ryu's shortest form of a finite f64, in the decimal notation it uses for
\* magnitudes in [1e-5, 1e16).
format_f64(f) ==
  (IF f.neg THEN <<"-">> ELSE <<>>) \o
  (IF f.exp >= 0
   THEN itoa(f.mant * Pow10(f.exp)) \o <<".", "0">>
   ELSE itoa(f.mant \div Pow10(-f.exp)) \o <<".">> \o FracDigits(f.mant % Pow10(-f.exp), -f.exp))

format_number(v) ==
  CASE v.k = "PosInt" -> itoa(v.n)
    [] v.k = "NegInt" -> <<"-">> \o itoa(-v.n)
    [] v.k = "Float" -> format_f64(v)

\* format_escaped_str_contents: one char of a string.
EscapeChar(c) ==
  CASE c = "\"" -> <<"\\", "\"">>
    [] c = "\\" -> <<"\\", "\\">>
    [] c = "\n" -> <<"\\", "n">>
    [] c = "\r" -> <<"\\", "r">>
    [] c = "\t" -> <<"\\", "t">>
    [] c = "U+0008" -> <<"\\", "b">>
    [] c = "\f" -> <<"\\", "f">>
    [] OTHER -> <<c>>

RECURSIVE EscapeStr(_)
EscapeStr(s) == IF s = <<>> THEN <<>> ELSE EscapeChar(Head(s)) \o EscapeStr(Tail(s))

format_str(s) == <<"\"">> \o EscapeStr(s) \o <<"\"">>

RECURSIVE to_vec(_), SerSeq(_, _), SerMap(_, _)
to_vec(v) ==
  CASE v.t = "Null" -> <<"n", "u", "l", "l">>
    [] v.t = "Bool" -> IF v.b THEN <<"t", "r", "u", "e">> ELSE <<"f", "a", "l", "s", "e">>
    [] v.t = "Number" -> format_number(v)
    [] v.t = "String" -> format_str(v.s)
    [] v.t = "Array" -> <<"[">> \o SerSeq(v.a, TRUE) \o <<"]">>
    [] v.t = "Object" -> <<"{">> \o SerMap(v.m, TRUE) \o <<"}">>

SerSeq(a, first) ==
  IF a = <<>> THEN <<>>
  ELSE (IF first THEN <<>> ELSE <<",">>) \o to_vec(Head(a)) \o SerSeq(Tail(a), FALSE)

SerMap(m, first) ==
  IF m = <<>> THEN <<>>
  ELSE (IF first THEN <<>> ELSE <<",">>) \o format_str(Head(m)[1]) \o <<":">>
       \o to_vec(Head(m)[2]) \o SerMap(Tail(m), FALSE)

(***************************************************************************)
(* serde_json::from_reader::<_, Value>(bytes): serde_json's Deserializer   *)
(* over the bytes.  A parse step yields the value and the index after it,  *)
(* or the serde_json error code.                                           *)
(***************************************************************************)
POk(v, i) == [ok |-> TRUE, v |-> v, i |-> i]

PFail(cause) == [ok |-> FALSE, cause |-> cause]

\* What peek() returns past the end of the input.
EOF == "EOF"

At(b, i) == IF i <= Len(b) THEN b[i] ELSE EOF

\* Deserializer::remaining_depth at the start of a parse.  serde_json starts
\* at 128; the model starts lower, so that values on both sides of the limit
\* are within the model checker's reach.  The parser is parametric in it.
RecursionLimit == 6

RECURSIVE parse_whitespace(_, _)
parse_whitespace(b, i) ==
  IF At(b, i) \in Whitespace THEN parse_whitespace(b, i + 1) ELSE i

RECURSIVE parse_ident(_, _, _, _)
parse_ident(b, i, ident, v) ==
  IF ident = <<>> THEN POk(v, i)
  ELSE IF At(b, i) = EOF THEN PFail("EofWhileParsingValue")
  ELSE IF At(b, i) # Head(ident) THEN PFail("ExpectedSomeIdent")
  ELSE parse_ident(b, i + 1, Tail(ident), v)

f64_from_parts(positive, significand, exponent) == Float(~positive, significand, exponent)

\* The digits from i on: <<their value, the index after them, their count>>.
RECURSIVE ScanDigits(_, _, _, _)
ScanDigits(b, i, acc, n) ==
  IF IsDigit(At(b, i)) THEN ScanDigits(b, i + 1, acc * 10 + DigitVal(b[i]), n + 1)
  ELSE <<acc, i, n>>

parse_exponent(b, i, positive, significand, starting_exp) ==
  LET j == IF At(b, i + 1) \in {"+", "-"} THEN i + 2 ELSE i + 1
      positive_exp == At(b, i + 1) # "-"
      d == ScanDigits(b, j, 0, 0)
  IN IF At(b, j) = EOF THEN PFail("EofWhileParsingValue")
     ELSE IF ~IsDigit(At(b, j)) THEN PFail("InvalidNumber")
     ELSE POk(f64_from_parts(positive, significand,
                             IF positive_exp THEN starting_exp + d[1] ELSE starting_exp - d[1]),
              d[2])

parse_decimal(b, i, positive, significand) ==
  LET d == ScanDigits(b, i + 1, significand, 0)
  IN IF d[3] = 0
     THEN (IF At(b, i + 1) = EOF THEN PFail("EofWhileParsingValue") ELSE PFail("InvalidNumber"))
     ELSE IF At(b, d[2]) \in {"e", "E"}
     THEN parse_exponent(b, d[2], positive, d[1], -d[3])
     ELSE POk(f64_from_parts(positive, d[1], -d[3]), d[2])

parse_number(b, i, positive, significand) ==
  CASE At(b, i) = "." -> parse_decimal(b, i, positive, significand)
    [] At(b, i) \in {"e", "E"} -> parse_exponent(b, i, positive, significand, 0)
    [] OTHER ->
         IF positive THEN POk(PosInt(significand), i)
         ELSE IF significand = 0 THEN POk(f64_from_parts(FALSE, 0, 0), i)
         ELSE POk(NegInt(-significand), i)

parse_integer(b, i, positive) ==
  CASE At(b, i) = EOF -> PFail("EofWhileParsingValue")
    [] At(b, i) = "0" ->
         IF IsDigit(At(b, i + 1)) THEN PFail("InvalidNumber")
         ELSE parse_number(b, i + 1, positive, 0)
    [] IsDigit(At(b, i)) /\ At(b, i) # "0" ->
         LET d == ScanDigits(b, i, 0, 0) IN parse_number(b, d[2], positive, d[1])
    [] OTHER -> PFail("InvalidNumber")

HexChars == {"0", "1", "2", "3", "4", "5", "6", "7", "8", "9", "a", "b", "e", "f", "E"}

\* decode_hex_escape for the code points of the model's characters.
UnicodeEscapes ==
  { [hex |-> <<"0", "0", "6", "1">>, c |-> "a"],
    [hex |-> <<"0", "0", "6", "2">>, c |-> "b"],
    [hex |-> <<"0", "0", "2", "0">>, c |-> " "],
    [hex |-> <<"0", "0", "2", "2">>, c |-> "\""],
    [hex |-> <<"0", "0", "0", "a">>, c |-> "\n"] }

decode_hex_escape(b, i) ==
  IF i + 3 > Len(b) THEN PFail("EofWhileParsingString")
  ELSE IF \E k \in 0..3 : b[i + k] \notin HexChars THEN PFail("InvalidEscape")
  ELSE POk((CHOOSE u \in UnicodeEscapes : u.hex = SubSeq(b, i, i + 3)).c, i + 4)

\* parse_escape: b[i] follows the backslash.
parse_escape(b, i) ==
  CASE At(b, i) = EOF -> PFail("EofWhileParsingString")
    [] At(b, i) \in {"\"", "\\", "/"} -> POk(b[i], i + 1)
    [] At(b, i) = "b" -> POk("U+0008", i + 1)
    [] At(b, i) = "f" -> POk("\f", i + 1)
    [] At(b, i) = "n" -> POk("\n", i + 1)
    [] At(b, i) = "r" -> POk("\r", i + 1)
    [] At(b, i) = "t" -> POk("\t", i + 1)
    [] At(b, i) = "u" -> decode_hex_escape(b, i + 1)
    [] OTHER -> PFail("InvalidEscape")

\* parse_str: b[i] is the first char after the opening quote.
RECURSIVE parse_str(_, _, _)
parse_str(b, i, acc) ==
  CASE At(b, i) = EOF -> PFail("EofWhileParsingString")
    [] At(b, i) = "\"" -> POk(acc, i + 1)
    [] At(b, i) = "\\" ->
         LET e == parse_escape(b, i + 1)
         IN IF e.ok THEN parse_str(b, e.i, Append(acc, e.v)) ELSE e
    [] IsControl(At(b, i)) -> PFail("ControlCharacterWhileParsingString")
    [] OTHER -> parse_str(b, i + 1, Append(acc, b[i]))

\* deserialize_any with Value's visitor; depth is remaining_depth.  SeqAccess
\* and MapAccess are next_element_seed / next_key_seed + next_value_seed,
\* folded with end_seq / end_map.
RECURSIVE deserialize_any(_, _, _), SeqAccess(_, _, _, _, _), MapAccess(_, _, _, _, _)
deserialize_any(b, i, depth) ==
  LET j == parse_whitespace(b, i)
      c == At(b, j)
      s == parse_str(b, j + 1, <<>>)
  IN CASE c = EOF -> PFail("EofWhileParsingValue")
       [] c = "n" -> parse_ident(b, j + 1, <<"u", "l", "l">>, Null)
       [] c = "t" -> parse_ident(b, j + 1, <<"r", "u", "e">>, Bool(TRUE))
       [] c = "f" -> parse_ident(b, j + 1, <<"a", "l", "s", "e">>, Bool(FALSE))
       [] c = "-" -> parse_integer(b, j + 1, FALSE)
       [] IsDigit(c) -> parse_integer(b, j, TRUE)
       [] c = "\"" /\ s.ok -> POk(String(s.v), s.i)
       [] c = "\"" /\ ~s.ok -> s
       [] c \in {"[", "{"} /\ depth - 1 = 0 -> PFail("RecursionLimitExceeded")
       [] c = "[" /\ depth - 1 # 0 -> SeqAccess(b, j + 1, <<>>, TRUE, depth - 1)
       [] c = "{" /\ depth - 1 # 0 -> MapAccess(b, j + 1, <<>>, TRUE, depth - 1)
       [] OTHER -> PFail("ExpectedSomeValue")

SeqAccess(b, i, acc, first, depth) ==
  LET j == parse_whitespace(b, i)
      c == At(b, j)
      k == IF c = "," /\ ~first THEN parse_whitespace(b, j + 1) ELSE j
      elem == c \notin {EOF, "]"} /\ (c = "," \/ first) /\ At(b, k) \notin {EOF, "]"}
      e == deserialize_any(b, k, depth)
  IN CASE c = EOF -> PFail("EofWhileParsingList")
       [] c = "]" -> POk(Array(acc), j + 1)
       [] c \notin {EOF, "]", ","} /\ ~first -> PFail("ExpectedListCommaOrEnd")
       [] c \notin {EOF, "]"} /\ (c = "," \/ first) /\ At(b, k) = "]" -> PFail("TrailingComma")
       [] c \notin {EOF, "]"} /\ (c = "," \/ first) /\ At(b, k) = EOF ->
            PFail("EofWhileParsingValue")
       [] elem /\ ~e.ok -> e
       [] elem /\ e.ok -> SeqAccess(b, e.i, Append(acc, e.v), FALSE, depth)

MapAccess(b, i, acc, first, depth) ==
  LET j == parse_whitespace(b, i)
      c == At(b, j)
      k == IF c = "," /\ ~first THEN parse_whitespace(b, j + 1) ELSE j
      entry == c \notin {EOF, "}"} /\ (c = "," \/ first)
      key == parse_str(b, k + 1, <<>>)
      colon == parse_whitespace(b, key.i)
      value == entry /\ At(b, k) = "\"" /\ key.ok /\ At(b, colon) = ":"
      e == deserialize_any(b, colon + 1, depth)
  IN CASE c = EOF -> PFail("EofWhileParsingObject")
       [] c = "}" -> POk(Object(acc), j + 1)
       [] c \notin {EOF, "}", ","} /\ ~first -> PFail("ExpectedObjectCommaOrEnd")
       [] entry /\ At(b, k) = "}" -> PFail("TrailingComma")
       [] entry /\ At(b, k) = EOF -> PFail("EofWhileParsingValue")
       [] entry /\ At(b, k) \notin {EOF, "}", "\""} -> PFail("KeyMustBeAString")
       [] entry /\ At(b, k) = "\"" /\ ~key.ok -> key
       [] entry /\ At(b, k) = "\"" /\ key.ok /\ At(b, colon) = EOF ->
            PFail("EofWhileParsingObject")
       [] entry /\ At(b, k) = "\"" /\ key.ok /\ At(b, colon) \notin {EOF, ":"} ->
            PFail("ExpectedColon")
       [] value /\ ~e.ok -> e
       [] value /\ e.ok -> MapAccess(b, e.i, MapInsert(acc, key.v, e.v), FALSE, depth)

\* Deserializer::end: only whitespace may follow the value.
end(b, i) == At(b, parse_whitespace(b, i)) = EOF

\* from_trait without the call of Deserializer::end.
from_trait_NoEnd(b, e) ==
  IF ~e.ok THEN [ok |-> FALSE, cause |-> e.cause] ELSE [ok |-> TRUE, v |-> e.v]

\* de::from_trait: the value, then Deserializer::end.
from_trait(b, e) ==
  IF ~e.ok THEN [ok |-> FALSE, cause |-> e.cause]
  ELSE IF ~end(b, e.i) THEN [ok |-> FALSE, cause |-> "TrailingCharacters"]
  ELSE [ok |-> TRUE, v |-> e.v]

\* serde_json::from_reader: Ok(Value) or Err(serde_json::Error).
from_reader(b) == from_trait(b, deserialize_any(b, 1, RecursionLimit))

(***************************************************************************)
(* src/convert.rs: JSON value <=> google.protobuf.Any                      *)
(***************************************************************************)
JSON_TYPE_URL == "s2/json"

\* prost_types::Any { type_url, value }
ProtoAny(type_url, value) == [type_url |-> type_url, value |-> value]

\* impl S2ProtoPack<Any> for Value
Value_pack(self) == Ok(ProtoAny(JSON_TYPE_URL, to_vec(self)))

\* .context(result::Json): a serde_json error becomes result::Error::Json.
context_Json(r) == IF r.ok THEN Ok(r.v) ELSE Err(JsonError(r.cause))

\* Value_unpack that decodes the payload first and looks at the tag after.
Value_unpack_DecodeFirst(any) ==
  IF ~from_reader(any.value).ok THEN context_Json(from_reader(any.value))
  ELSE IF any.type_url = JSON_TYPE_URL THEN context_Json(from_reader(any.value))
  ELSE Err(JsonTypeUrlUnknown(any.type_url))

\* impl S2ProtoUnpack<Any> for Value
Value_unpack(any) ==
  IF any.type_url = JSON_TYPE_URL
  THEN context_Json(from_reader(any.value))
  ELSE Err(JsonTypeUrlUnknown(any.type_url))

(***************************************************************************)
(* Json<T> for a representative T:                                         *)
(*   #[derive(Serialize, Deserialize)] struct T { a: u64, b: Option<String> } *)
(* A T is [a |-> n, b |-> None or Some(chars)].                            *)
(***************************************************************************)
\* pub struct Json<T>(pub T)
Json(x) == [inner |-> x]

\* serde_json::to_value(&T): the derived Serialize of T.
to_value(x) ==
  [ok |-> TRUE,
   v |-> Object(<<(<<(<<"a">>), PosInt(x.a)>>),
                  (<<(<<"b">>), IF x.b.some THEN String(x.b.v) ELSE Null>>)>>)]

\* Deserialize for u64 from a Value.
u64_from_value(v) ==
  IF v.t # "Number" THEN [ok |-> FALSE, cause |-> "invalid type"]
  ELSE IF v.k = "PosInt" THEN [ok |-> TRUE, v |-> v.n]
  ELSE IF v.k = "NegInt" THEN [ok |-> FALSE, cause |-> "invalid value"]
  ELSE [ok |-> FALSE, cause |-> "invalid type"]

\* Deserialize for Option<String> from a Value.
option_string_from_value(v) ==
  CASE v.t = "Null" -> [ok |-> TRUE, v |-> None]
    [] v.t = "String" -> [ok |-> TRUE, v |-> Some(v.s)]
    [] OTHER -> [ok |-> FALSE, cause |-> "invalid type"]

\* The derived visit_map of T: unknown keys are ignored, a missing Option
\* field is None, a missing u64 field is an error.
visit_map(m) ==
  LET a == u64_from_value(MapGet(m, <<"a">>))
      b == IF MapHas(m, <<"b">>) THEN option_string_from_value(MapGet(m, <<"b">>))
           ELSE [ok |-> TRUE, v |-> None]
  IN IF ~MapHas(m, <<"a">>) THEN [ok |-> FALSE, cause |-> "missing field"]
     ELSE IF ~a.ok THEN a
     ELSE IF ~b.ok THEN b
     ELSE [ok |-> TRUE, v |-> [a |-> a.v, b |-> b.v]]

\* The derived visit_seq of T: the fields by position, no more, no fewer.
visit_seq(s) ==
  LET a == u64_from_value(s[1])
      b == option_string_from_value(s[2])
  IN IF Len(s) # 2 THEN [ok |-> FALSE, cause |-> "invalid length"]
     ELSE IF ~a.ok THEN a
     ELSE IF ~b.ok THEN b
     ELSE [ok |-> TRUE, v |-> [a |-> a.v, b |-> b.v]]

\* serde_json::from_value::<T>(Value): deserialize_struct on a Value.
from_value(v) ==
  CASE v.t = "Object" -> visit_map(v.m)
    [] v.t = "Array" -> visit_seq(v.a)
    [] OTHER -> [ok |-> FALSE, cause |-> "invalid type"]

\* `?` then .pack(): the error returned, the Value packed.
then_pack(r) == IF r.r = "Ok" THEN Value_pack(r.v) ELSE r

\* pub fn pack_any<T>(value: T) -> Result<Any>
pack_any(value) == then_pack(context_Json(to_value(value)))

\* then_from_value with unwrap_or_default() for context(..).
then_from_value_Default(r) ==
  IF r.r # "Ok" THEN r
  ELSE IF from_value(r.v).ok THEN Ok(from_value(r.v).v)
  ELSE Ok([a |-> 0, b |-> None])

\* `?` then from_value(value).context(result::Json)
then_from_value(r) == IF r.r = "Ok" THEN context_Json(from_value(r.v)) ELSE r

\* pub fn unpack_any<T>(value: Any) -> Result<T>
unpack_any(any) == then_from_value(Value_unpack(any))

\* Result::map(Json)
map_Json(r) == IF r.r = "Ok" THEN Ok(Json(r.v)) ELSE r

\* impl<T> S2ProtoPack<Any> for Json<T>
Json_pack(self) == pack_any(self.inner)

\* impl<T> S2ProtoUnpack<Any> for Json<T>
Json_unpack(value) == map_Json(unpack_any(value))

(***************************************************************************)
(* src/convert.rs: DateTime<Utc> <=> google.protobuf.Timestamp             *)
(*                                                                         *)
(* An i64 is exact where it fits the model checker's integers (|n| < 2^31);*)
(* i64::MAX and i64::MIN are the two values beyond them that the model     *)
(* carries.  A u32 is two 16-bit limbs, so that the wrap of `as u32` has   *)
(* its width.                                                              *)
(***************************************************************************)
i64(n) == [x |-> "exact", n |-> n]

i64_MAX == [x |-> "MAX", n |-> 0]

i64_MIN == [x |-> "MIN", n |-> 0]

Limb == 65536

u32(n) == [hi |-> n \div Limb, lo |-> n % Limb]

\* `nanos as u32` of an i32: a negative n wraps to n + 2^32.
as_u32(n) ==
  IF n >= 0 THEN u32(n)
  ELSE [hi |-> ((n + 2147483647 + 1) \div Limb) + 32768, lo |-> (n + 2147483647 + 1) % Limb]

u32_lt(x, y) == x.hi < y.hi \/ (x.hi = y.hi /\ x.lo < y.lo)

\* `timestamp_subsec_nanos() as i32`: NaiveTime keeps frac below 2^31.
as_i32(n) == n

SecsPerDay == 86400

NanosPerSec == 1000000000

\* The day number (from 0001-01-01 = 1) of 1970-01-01.
UnixEpochDayCE == 719163

\* Timestamp { seconds: i64, nanos: i32 }
Timestamp(seconds, nanos) == [seconds |-> seconds, nanos |-> nanos]

\* NaiveDateTime { date, time: NaiveTime { secs, frac } }, the date by
\* num_days_from_ce().  frac in [1e9, 2e9) is chrono's leap second.
NaiveDateTime(days_ce, secs, frac) == [days_ce |-> days_ce, secs |-> secs, frac |-> frac]

\* DateTime::<Utc>::from_utc(naive, Utc)
from_utc(naive, offset) == [datetime |-> naive, offset |-> offset]

\* DateTime::timestamp()
timestamp(self) == i64((self.datetime.days_ce - UnixEpochDayCE) * SecsPerDay + self.datetime.secs)

\* DateTime::timestamp_subsec_nanos(): the frac as it is, leap second included.
timestamp_subsec_nanos(self) == self.datetime.frac

\* NaiveTime::from_num_seconds_from_midnight_opt(secs, nano).  chrono up to
\* 0.4.30 takes any nano < 2e9; later releases take nano >= 1e9 only in the
\* last second of a minute (strict).
from_num_seconds_from_midnight_opt(secs, nano, strict) ==
  IF secs >= SecsPerDay \/ ~u32_lt(nano, u32(2 * NanosPerSec)) THEN None
  ELSE IF strict /\ ~u32_lt(nano, u32(NanosPerSec)) /\ secs % 60 # 59 THEN None
  ELSE Some([secs |-> secs, frac |-> nano.hi * Limb + nano.lo])

\* (Some(date), Some(time)) => Some(NaiveDateTime::new(date, time)) in
\* from_timestamp_opt, the date by its day number.
date_and_time(days_ce, time) ==
  IF time.some THEN Some(NaiveDateTime(days_ce, time.v.secs, time.v.frac)) ELSE None

\* from_timestamp_opt with `/` and `%` (toward zero) for div_euclid and
\* rem_euclid.
from_timestamp_opt_Trunc(secs, nsecs, strict) ==
  IF secs.x # "exact" THEN None
  ELSE IF secs.n >= 0
  THEN date_and_time((secs.n \div SecsPerDay) + UnixEpochDayCE,
                     from_num_seconds_from_midnight_opt(secs.n % SecsPerDay, nsecs, strict))
  ELSE date_and_time(UnixEpochDayCE - ((-secs.n) \div SecsPerDay),
                     from_num_seconds_from_midnight_opt(-((-secs.n) % SecsPerDay), nsecs, strict))

\* NaiveDateTime::from_timestamp_opt(secs, nsecs): None when the days do not
\* fit an i32 or the time is invalid.  Every day the exact seconds of the
\* model reach (years 1901 to 2038) is within NaiveDate's range.
from_timestamp_opt(secs, nsecs, strict) ==
  IF secs.x # "exact" THEN None
  ELSE date_and_time((secs.n \div SecsPerDay) + UnixEpochDayCE,
                     from_num_seconds_from_midnight_opt(secs.n % SecsPerDay, nsecs, strict))

\* .expect("invalid or out-of-range datetime")
expect(dt) == IF dt.some THEN Ok(dt.v) ELSE Panic

\* NaiveDateTime::from_timestamp: panics where from_timestamp_opt is None.
from_timestamp(secs, nsecs, strict) == expect(from_timestamp_opt(secs, nsecs, strict))

\* DateTime_pack that takes the nanos for less than a second
\* (with_nanosecond-style unwrap): a leap second panics.
DateTime_pack_SubSecond(self) ==
  IF timestamp_subsec_nanos(self) >= NanosPerSec THEN Panic
  ELSE Ok(Timestamp(timestamp(self), as_i32(timestamp_subsec_nanos(self))))

\* impl S2ProtoPack<Timestamp> for DateTime<Utc>
DateTime_pack(self) ==
  Ok(Timestamp(timestamp(self), as_i32(timestamp_subsec_nanos(self))))

\* Ok(DateTime::from_utc(dt, Utc)), unless from_timestamp panicked.
Ok_from_utc(dt) == IF dt.r = "Panic" THEN Panic ELSE Ok(from_utc(dt.v, "Utc"))

\* impl S2ProtoUnpack<Timestamp> for DateTime<Utc>
DateTime_unpack(ts, strict) ==
  Ok_from_utc(from_timestamp(ts.seconds, as_u32(ts.nanos), strict))

(***************************************************************************)
(* The types and the implementations of S2ProtoPack<wire> for native /     *)
(* S2ProtoUnpack<wire> for native that the file defines.  A type is the    *)
(* sequence of its name's parts: Option<f32> is <<"Option", "f32">>.       *)
(***************************************************************************)
Option(ty) == <<"Option">> \o ty

TyValue == <<"Value">>

TyAny == <<"Any">>

TyT == <<"T">>

TyJson == <<"Json", "T">>

TyDateTime == <<"DateTime", "Utc">>

TyTimestamp == <<"Timestamp">>

Impl(native, wire) == [native |-> native, wire |-> wire]

\* The scalars of impl_self! { ... }
Scalars == {<<"f32">>, <<"f64">>, <<"i64">>, <<"u64">>, <<"i32">>, <<"u32">>, <<"bool">>, <<"String">>}

\* impl_option! without its two impls for $rust.
impl_option_OptionOnly(rust, proto) == {Impl(Option(rust), Option(proto))}

\* macro_rules! impl_option: the impls `$rust => $proto` expands to.
impl_option(rust, proto) == {Impl(Option(rust), Option(proto)), Impl(rust, Option(proto))}

\* macro_rules! impl_self: one impl per listed type.
impl_self(tys) == {Impl(ty, ty) : ty \in tys}

\* impl_self! { f32, Option<f32>, ..., String, Option<String> }
SelfImpls == impl_self(Scalars \cup {Option(ty) : ty \in Scalars})

\* The impls written out in the file.
WrittenImpls ==
  {Impl(TyValue, TyAny), Impl(TyJson, TyAny), Impl(Option(TyJson), Option(TyAny)),
   Impl(TyDateTime, TyTimestamp)}

\* impl_option!(Value => Any); impl_option!(DateTime<Utc> => Timestamp);
OptionImpls == impl_option(TyValue, TyAny) \cup impl_option(TyDateTime, TyTimestamp)

Impls == WrittenImpls \cup OptionImpls \cup SelfImpls

\* pack_any / unpack_any: free functions between T and Any.
AnyFns == Impl(TyT, TyAny)

\* The base impl `value.pack()` / `<$rust>::unpack(value)` resolve to in an
\* impl for an Option wire type.
BaseOf(impl) ==
  Impl(IF Head(impl.native) = "Option" THEN Tail(impl.native) ELSE impl.native, Tail(impl.wire))

\* impl_self!: pack
Self_pack(self) == Ok(self)

\* impl_self!: unpack
Self_unpack(value) == Ok(value)

\* The pack / unpack of the impls that are not for an Option wire type.
base_pack(impl, self) ==
  CASE impl = Impl(TyValue, TyAny) -> Value_pack(self)
    [] impl = Impl(TyJson, TyAny) -> Json_pack(self)
    [] impl = Impl(TyDateTime, TyTimestamp) -> DateTime_pack(self)
    [] impl = AnyFns -> pack_any(self)
    [] impl \in SelfImpls -> Self_pack(self)

base_unpack(impl, value, strict) ==
  CASE impl = Impl(TyValue, TyAny) -> Value_unpack(value)
    [] impl = Impl(TyJson, TyAny) -> Json_unpack(value)
    [] impl = Impl(TyDateTime, TyTimestamp) -> DateTime_unpack(value, strict)
    [] impl = AnyFns -> unpack_any(value)
    [] impl \in SelfImpls -> Self_unpack(value)

\* Ok(Some(r?))
Ok_Some(r) == IF r.r = "Ok" THEN Ok(Some(r.v)) ELSE r

\* impl S2ProtoPack<Option<$proto>> for Option<$rust>
option_pack(base, self) ==
  IF self.some THEN Ok_Some(base_pack(base, self.v)) ELSE Ok(None)

\* option_unpack with `.ok()` for `?`: a failed base unpack becomes None.
option_unpack_ErrToNone(base, value, strict) ==
  IF value.some /\ base_unpack(base, value.v, strict).r = "Ok"
  THEN Ok_Some(base_unpack(base, value.v, strict))
  ELSE Ok(None)

\* impl S2ProtoUnpack<Option<$proto>> for Option<$rust>
option_unpack(base, value, strict) ==
  IF value.some THEN Ok_Some(base_unpack(base, value.v, strict)) ELSE Ok(None)

\* impl S2ProtoPack<Option<$proto>> for $rust
required_pack(base, self) == Ok_Some(base_pack(base, self))

\* required_unpack that takes an absent value for Default::default().
required_unpack_Default(base, value, strict) ==
  IF value.some THEN base_unpack(base, value.v, strict)
  ELSE Ok(IF base = Impl(TyValue, TyAny) THEN Null
          ELSE from_utc(NaiveDateTime(UnixEpochDayCE, 0, 0), "Utc"))

\* impl S2ProtoUnpack<Option<$proto>> for $rust: Ok(r?) is r.
required_unpack(base, value, strict) ==
  IF value.some THEN base_unpack(base, value.v, strict) ELSE Err(ValueNotPresent)

\* impl<T> S2ProtoPack<Option<Any>> for Option<Json<T>>
Option_Json_pack(self) ==
  IF self.some THEN Ok_Some(Json_pack(self.v)) ELSE Ok(None)

\* impl<T> S2ProtoUnpack<Option<Any>> for Option<Json<T>>
Option_Json_unpack(value) ==
  IF value.some THEN Ok_Some(Json_unpack(value.v)) ELSE Ok(None)

(***************************************************************************)
(* The values the calls are made on.                                       *)
(***************************************************************************)
\* Numbers run over 0..MaxNum, days over MaxDays either side of the epoch.
MaxNum == 2

MaxDays == 1

SampleStrings ==
  {<<>>, <<"a">>, <<"b", "\"">>, <<"\\", "n">>, <<"a", "\n", "/">>, <<"U+0008", "\t", " ">>}

SampleNumbers ==
  {PosInt(n) : n \in 0..MaxNum} \cup {PosInt(10 * n + 2) : n \in 1..MaxNum}
  \cup {NegInt(-n) : n \in 1..MaxNum}
  \cup {Float(neg, 0, 0) : neg \in BOOLEAN}
  \cup {Float(FALSE, 15, -1), Float(TRUE, 25, -2), Float(FALSE, 5, -3), Float(FALSE, 1, 2)}

Atoms ==
  {Null, Bool(TRUE), Bool(FALSE)} \cup SampleNumbers \cup {String(s) : s \in SampleStrings}

SmallAtoms == {Null, Bool(TRUE), PosInt(1), String(<<"a">>)}

\* d arrays, one in the other.
RECURSIVE Nest(_)
Nest(d) == IF d = 1 THEN Array(<<>>) ELSE Array(<<Nest(d - 1)>>)

Arrays ==
  {Array(<<>>)} \cup {Array(<<x>>) : x \in Atoms}
  \cup {Array(<<x, y>>) : x, y \in SmallAtoms}

Objects ==
  {Object(<<>>)}
  \cup {Object(<<(<<key, x>>)>>) : key \in {<<>>, <<"a">>, <<"a", "\"">>}, x \in SmallAtoms}
  \cup {Object(<<(<<(<<"a">>), x>>), (<<(<<"b">>), y>>)>>) : x, y \in SmallAtoms}

Nested ==
  {Nest(d) : d \in 1..RecursionLimit}
  \cup {Object(<<(<<(<<"a">>), Nest(d)>>)>>) : d \in {1, RecursionLimit - 2, RecursionLimit - 1}}
  \cup {Array(<<x, y>>) : x \in {Object(<<>>), Array(<<Null>>)},
                         y \in {Array(<<>>), Object(<<(<<(<<"b">>), Array(<<>>)>>)>>)}}
  \cup {Object(<<(<<(<<"a">>), PosInt(1)>>), (<<(<<"b">>), Array(<<Bool(TRUE), Null>>)>>)>>)}

SampleValues == Atoms \cup Arrays \cup Objects \cup Nested

\* The values of the struct T.
SampleTs ==
  {[a |-> a, b |-> b] : a \in 0..MaxNum,
                        b \in {None, Some(<<>>), Some(<<"a">>), Some(<<"b", "\"">>)}}

\* JSON texts that are not the compact text of a sample value: whitespace,
\* keys out of order or repeated, escapes, exponents, and shapes next to T's.
OtherTexts ==
  { <<" ", "{", " ", "\"", "b", "\"", " ", ":", " ", "1", " ", ",", "\n", "\"", "a", "\"",
      ":", "[", " ", "]", "}", "\t">>,
    <<"{", "\"", "a", "\"", ":", "1", ",", "\"", "a", "\"", ":", "2", "}">>,
    <<"\"", "\\", "u", "0", "0", "6", "1", "\\", "/", "\"">>,
    <<"1", ".", "5", "0">>, <<"1", "e", "2">>, <<"-", "0">>, <<"2", "E", "-", "1">>,
    <<"[", "1", ",", " ", "2", "]", "\r", "\n">>,
    <<"{", "\"", "a", "\"", ":", "1", "}">>,
    <<"{", "\"", "b", "\"", ":", "\"", "a", "\"", "}">>,
    <<"{", "\"", "a", "\"", ":", "1", ",", "\"", "x", "\"", ":", "t", "r", "u", "e", "}">>,
    <<"{", "\"", "a", "\"", ":", "-", "1", "}">>,
    <<"{", "\"", "a", "\"", ":", "\"", "1", "\"", "}">>,
    <<"{", "\"", "a", "\"", ":", "1", ".", "5", "}">>,
    <<"{", "\"", "a", "\"", ":", "1", ",", "\"", "b", "\"", ":", "2", "}">>,
    <<"[", "1", ",", "\"", "a", "\"", "]">>, <<"[", "2", ",", "n", "u", "l", "l", "]">>,
    <<"[", "1", "]">>, <<"[", "1", ",", "n", "u", "l", "l", ",", "0", "]">> }

ValidTexts == {to_vec(v) : v \in SampleValues \cup {to_value(x).v : x \in SampleTs}} \cup OtherTexts

\* The proper prefixes of the text of a value that is not a number (a proper
\* prefix of a number's text can be a number): none is a JSON text.
Truncated ==
  UNION {{SubSeq(to_vec(v), 1, n) : n \in 0..(Len(to_vec(v)) - 1)} :
           v \in (SampleValues \ SampleNumbers)}

\* A JSON text followed by a char that ends no JSON text, or by a bracket
\* that nothing opened.
Trailing == {t \o <<c>> : t \in {to_vec(v) : v \in Arrays \cup Objects \cup Atoms}, c \in {"]", "x", ","}}

BrokenTexts ==
  { <<"[", "1", ",", "]">>, <<"{", "\"", "a", "\"", " ", "1", "}">>, <<"0", "1">>, <<"-">>,
    <<"\"", "\\", "x", "\"">>, <<"{", "1", ":", "2", "}">>, <<"\"", "a", "\n", "\"">>,
    <<"[", "1", " ", "2", "]">>, <<"+", "1">>, <<".", "5">>, <<"1", ".">>, <<"1", "e">>,
    <<"1", "e", "+">>, <<"{", "\"", "a", "\"", ":", "1", ",", "}">>, <<" ", "\n">>,
    <<"n", "u", "l", "l", " ", "n", "u", "l", "l">>, <<"{", "\"", "a", "\"", ":", "}">>,
    <<"\"", "\\", "u", "0", "0", "6", "\"">>, <<"[", ",", "1", "]">>, <<"t", "r", "u", "E">> }

\* Byte strings that are not one complete JSON text.
MalformedTexts == Truncated \cup Trailing \cup BrokenTexts

OtherTypeUrls == {"other/format", "", "S2/JSON", "s2/json ", "type.googleapis.com/s2.json"}

SampleAnys ==
  {ProtoAny(JSON_TYPE_URL, b) : b \in ValidTexts \cup MalformedTexts}
  \cup {ProtoAny(url, b) : url \in OtherTypeUrls,
                          b \in {<<>>, <<"x">>, <<"n", "u", "l", "l">>, <<"[", "1">>,
                                 to_vec(Nest(2)), <<"{", "\"", "a", "\"", ":", "1", "}">>}}

\* The instants of the build: with a leap second frac, in the strict build
\* only in the last second of a minute.
SampleDateTimes(strict) ==
  UNION {{from_utc(NaiveDateTime(UnixEpochDayCE + d, secs, frac), "Utc") :
            d \in (-MaxDays)..MaxDays,
            frac \in {f \in {0, 1, NanosPerSec - 1, NanosPerSec, 2 * NanosPerSec - 1} :
                        f < NanosPerSec \/ ~strict \/ secs % 60 = 59}} :
           secs \in {0, 59, 60, SecsPerDay - 1}}

SampleTimestamps ==
  {Timestamp(seconds, nanos) :
     seconds \in {i64(n) : n \in {0, 1, 59, -1, -60, SecsPerDay, -SecsPerDay, -SecsPerDay - 1,
                                  2147483647, -2147472000}}
                 \cup {i64((d * SecsPerDay) + 7) : d \in (-MaxDays)..MaxDays}
                 \cup {i64_MAX, i64_MIN},
     nanos \in {0, 1, NanosPerSec - 1, NanosPerSec, 2 * NanosPerSec - 1, 2 * NanosPerSec,
                2147483647, -1, -NanosPerSec, -2147483647}}

SampleScalars(ty) ==
  CASE ty \in {<<"f32">>, <<"f64">>} -> {Float(FALSE, 0, 0), Float(TRUE, 15, -1), Float(FALSE, 1, 2)}
    [] ty \in {<<"i32">>, <<"i64">>} -> (-MaxNum)..MaxNum \cup {2147483647, -2147483647}
    [] ty \in {<<"u32">>, <<"u64">>} -> 0..MaxNum \cup {2147483647}
    [] ty = <<"bool">> -> BOOLEAN
    [] ty = <<"String">> -> SampleStrings

RECURSIVE Samples(_, _)
Samples(ty, strict) ==
  CASE Head(ty) = "Option" -> {None} \cup {Some(x) : x \in Samples(Tail(ty), strict)}
    [] ty = TyValue -> SampleValues
    [] ty = TyAny -> SampleAnys
    [] ty = TyT -> SampleTs
    [] ty = TyJson -> {Json(x) : x \in SampleTs}
    [] ty = TyDateTime -> SampleDateTimes(strict)
    [] ty = TyTimestamp -> SampleTimestamps
    [] ty \in Scalars -> SampleScalars(ty)

(***************************************************************************)
(* The state machine: a caller that makes one conversion call after the    *)
(* other, on a value of its own or on the value the call before produced.  *)
(***************************************************************************)
NoCall == [dir |-> "none"]

Call(impl, dir, arg, out) == [impl |-> impl, dir |-> dir, arg |-> arg, out |-> out]

Opposite(dir) == IF dir = "pack" THEN "unpack" ELSE "pack"

\* The values impl's pack (on a native value) or unpack (on a wire value) can
\* be called on: any value when no call is held, else the result of the
\* opposite call just made.
Args(impl, dir) ==
  IF last = NoCall
  THEN Samples(IF dir = "pack" THEN impl.native ELSE impl.wire, chrono)
  ELSE IF last.dir = Opposite(dir) /\ last.impl = impl /\ last.out.r = "Ok"
  THEN {last.out.v}
  ELSE {}

\* The call made: it becomes the last one, the one before it is kept.
Made(impl, dir, arg, out) ==
  /\ last' = Call(impl, dir, arg, out)
  /\ prev' = last
  /\ UNCHANGED chrono

\* The impls of impl_option! for Option<$rust>, and those for $rust.
OptionOptionImpls == {i \in OptionImpls : Head(i.native) = "Option"}

RequiredImpls == {i \in OptionImpls : Head(i.native) # "Option"}

ValuePack ==
  \E x \in Args(Impl(TyValue, TyAny), "pack") :
     Made(Impl(TyValue, TyAny), "pack", x, Value_pack(x))

ValueUnpack ==
  \E x \in Args(Impl(TyValue, TyAny), "unpack") :
     Made(Impl(TyValue, TyAny), "unpack", x, Value_unpack(x))

JsonPack ==
  \E x \in Args(Impl(TyJson, TyAny), "pack") :
     Made(Impl(TyJson, TyAny), "pack", x, Json_pack(x))

JsonUnpack ==
  \E x \in Args(Impl(TyJson, TyAny), "unpack") :
     Made(Impl(TyJson, TyAny), "unpack", x, Json_unpack(x))

OptionJsonPack ==
  \E x \in Args(Impl(Option(TyJson), Option(TyAny)), "pack") :
     Made(Impl(Option(TyJson), Option(TyAny)), "pack", x, Option_Json_pack(x))

OptionJsonUnpack ==
  \E x \in Args(Impl(Option(TyJson), Option(TyAny)), "unpack") :
     Made(Impl(Option(TyJson), Option(TyAny)), "unpack", x, Option_Json_unpack(x))

PackAny ==
  \E x \in Args(AnyFns, "pack") : Made(AnyFns, "pack", x, pack_any(x))

UnpackAny ==
  \E x \in Args(AnyFns, "unpack") : Made(AnyFns, "unpack", x, unpack_any(x))

DateTimePack ==
  \E x \in Args(Impl(TyDateTime, TyTimestamp), "pack") :
     Made(Impl(TyDateTime, TyTimestamp), "pack", x, DateTime_pack(x))

DateTimeUnpack ==
  \E x \in Args(Impl(TyDateTime, TyTimestamp), "unpack") :
     Made(Impl(TyDateTime, TyTimestamp), "unpack", x, DateTime_unpack(x, chrono))

OptionPack ==
  \E impl \in OptionOptionImpls : \E x \in Args(impl, "pack") :
     Made(impl, "pack", x, option_pack(BaseOf(impl), x))

OptionUnpack ==
  \E impl \in OptionOptionImpls : \E x \in Args(impl, "unpack") :
     Made(impl, "unpack", x, option_unpack(BaseOf(impl), x, chrono))

RequiredPack ==
  \E impl \in RequiredImpls : \E x \in Args(impl, "pack") :
     Made(impl, "pack", x, required_pack(BaseOf(impl), x))

RequiredUnpack ==
  \E impl \in RequiredImpls : \E x \in Args(impl, "unpack") :
     Made(impl, "unpack", x, required_unpack(BaseOf(impl), x, chrono))

SelfPack ==
  \E impl \in SelfImpls : \E x \in Args(impl, "pack") :
     Made(impl, "pack", x, Self_pack(x))

SelfUnpack ==
  \E impl \in SelfImpls : \E x \in Args(impl, "unpack") :
     Made(impl, "unpack", x, Self_unpack(x))

\* The caller drops the values of the calls made.
Discard ==
  /\ last # NoCall
  /\ last' = NoCall
  /\ prev' = NoCall
  /\ UNCHANGED chrono

\* The chrono release of the build is fixed before the first call.
Init ==
  /\ last = NoCall
  /\ prev = NoCall
  /\ chrono \in BOOLEAN

Next ==
  \/ ValuePack \/ ValueUnpack
  \/ JsonPack \/ JsonUnpack
  \/ OptionJsonPack \/ OptionJsonUnpack
  \/ PackAny \/ UnpackAny
  \/ DateTimePack \/ DateTimeUnpack
  \/ OptionPack \/ OptionUnpack
  \/ RequiredPack \/ RequiredUnpack
  \/ SelfPack \/ SelfUnpack
  \/ Discard

Spec == Init /\ [][Next]_vars

(***************************************************************************)
(* The properties.  `last` is the call just made, `prev` the call whose    *)
(* result it was made on (NoCall when it was made on a fresh value).       *)
(***************************************************************************)
ValueAny == Impl(TyValue, TyAny)

JsonAny == Impl(TyJson, TyAny)

DateTimeTimestamp == Impl(TyDateTime, TyTimestamp)

OptionJsonAny == Impl(Option(TyJson), Option(TyAny))

Did(impls, dir) == last.dir = dir /\ last.impl \in impls

\* Did(impls, dir) on the result of the opposite call.
DidAfter(impls, dir) == Did(impls, dir) /\ prev.dir = Opposite(dir)

\* C1: unpacking an envelope whose type tag is not "s2/json" fails with
\* JsonTypeUrlUnknown carrying that tag, whatever the payload: for Value,
\* for unpack_any and Json<T>, and for the Option impls on Some(envelope).
C1_TagEnforced ==
  /\ (Did({ValueAny, JsonAny, AnyFns}, "unpack") /\ last.arg.type_url # JSON_TYPE_URL)
       => last.out = Err(JsonTypeUrlUnknown(last.arg.type_url))
  /\ (/\ Did({Impl(Option(TyValue), Option(TyAny)), Impl(TyValue, Option(TyAny)), OptionJsonAny},
             "unpack")
      /\ last.arg.some
      /\ last.arg.v.type_url # JSON_TYPE_URL)
       => last.out = Err(JsonTypeUrlUnknown(last.arg.v.type_url))

\* An envelope of another tag with a payload that is no JSON text was
\* unpacked, and the tag came back in the error.
C1_Witness ==
  /\ Did({ValueAny}, "unpack")
  /\ last.arg = ProtoAny("other/format", <<"[", "1">>)
  /\ last.out = Err(JsonTypeUrlUnknown("other/format"))

\* C2: in the impls for a required native type and an Option wire type,
\* unpack(None) is the error ValueNotPresent, unpack(Some(w)) is the result
\* of the base unpack(w) whatever it is, and pack(n) is Some of the base
\* pack(n), never None.
C2_RequiredLifting ==
  /\ (Did(RequiredImpls, "unpack") /\ ~last.arg.some) => last.out = Err(ValueNotPresent)
  /\ (Did(RequiredImpls, "unpack") /\ last.arg.some)
       => last.out = base_unpack(BaseOf(last.impl), last.arg.v, chrono)
  /\ Did(RequiredImpls, "pack")
       => /\ last.out.r = "Ok"
          /\ last.out.v.some
          /\ Ok(last.out.v.v) = base_pack(BaseOf(last.impl), last.arg)

\* A required DateTime<Utc> was unpacked from an absent Timestamp.
C2_Witness ==
  /\ Did({Impl(TyDateTime, Option(TyTimestamp))}, "unpack")
  /\ last.arg = None
  /\ last.out = Err(ValueNotPresent)

\* C3: unpacking a Timestamp into a DateTime<Utc> never panics, whatever the
\* seconds and the nanos.
C3_UnpackNeverPanics ==
  Did({DateTimeTimestamp}, "unpack") => last.out.r # "Panic"

\* The pairings the conversions are instantiated for.
BasePairings == {Impl(ty, ty) : ty \in Scalars} \cup {DateTimeTimestamp, ValueAny, JsonAny}

OptionOption(base) == Impl(Option(base.native), Option(base.wire))

Required(base) == Impl(base.native, Option(base.wire))

\* C4 as stated: for every scalar, the timestamp pairing, Value and Json<T>,
\* both the (Option<N>, Option<W>) and the (N, Option<W>) conversion exist,
\* and the latter unpacks an absent value to ValueNotPresent.
C4_LiftingForEveryPairing ==
  \A base \in BasePairings :
     /\ OptionOption(base) \in Impls
     /\ Required(base) \in Impls
     /\ (Did({Required(base)}, "unpack") /\ ~last.arg.some) => last.out = Err(ValueNotPresent)

\* C4 amended: the (Option<N>, Option<W>) conversion exists for every
\* pairing; the (N, Option<W>) conversion exists for Value and for the
\* timestamp pairing and for no other, and where it exists it unpacks an
\* absent value to ValueNotPresent; an absent Option<scalar> unpacks to None.
C4_LiftingWhereDefined ==
  /\ \A base \in BasePairings :
        /\ OptionOption(base) \in Impls
        /\ Required(base) \in Impls <=> base \in {ValueAny, DateTimeTimestamp}
        /\ (Did({Required(base)}, "unpack") /\ ~last.arg.some)
             => last.out = Err(ValueNotPresent)
  /\ \A ty \in Scalars :
        (Did({Impl(Option(ty), Option(ty))}, "unpack") /\ ~last.arg.some) => last.out = Ok(None)

\* A required Value was unpacked from an absent envelope.
C4_Witness ==
  /\ Did({Required(ValueAny)}, "unpack")
  /\ last.arg = None
  /\ last.out = Err(ValueNotPresent)

\* C5: for an instant t with nanoseconds below 1_000_000_000, before the
\* epoch or after, pack gives the whole seconds since the epoch (rounded
\* down) and the nanoseconds left, not negative, and unpack of them gives t.
C5_TimestampRoundTrip ==
  (DidAfter({DateTimeTimestamp}, "unpack") /\ prev.arg.datetime.frac < NanosPerSec)
    => /\ prev.out.r = "Ok"
       /\ prev.out.v.seconds =
            i64((prev.arg.datetime.days_ce - UnixEpochDayCE) * SecsPerDay + prev.arg.datetime.secs)
       /\ prev.out.v.nanos = prev.arg.datetime.frac
       /\ prev.out.v.nanos >= 0
       /\ last.out = Ok(prev.arg)

\* An instant before the epoch, not on a whole second, went round.
C5_Witness ==
  /\ DidAfter({DateTimeTimestamp}, "unpack")
  /\ prev.arg = from_utc(NaiveDateTime(UnixEpochDayCE - 1, 59, NanosPerSec - 1), "Utc")
  /\ prev.out = Ok(Timestamp(i64(59 - SecsPerDay), NanosPerSec - 1))
  /\ last.out = Ok(prev.arg)

\* C6: every Value packs into an envelope tagged "s2/json" that holds its
\* JSON text, and unpacking that envelope gives the Value back.
C6_ValueRoundTrip ==
  /\ Did({ValueAny}, "pack") => last.out = Ok(ProtoAny("s2/json", to_vec(last.arg)))
  /\ DidAfter({ValueAny}, "unpack") => last.out = Ok(prev.arg)

\* C7: unpacking an envelope tagged "s2/json" whose payload is not one
\* complete JSON text (empty, truncated, malformed, or with something after
\* the text) gives the error Json, not a value and not a panic.
C7_MalformedRejected ==
  (/\ Did({ValueAny}, "unpack")
   /\ last.arg.type_url = JSON_TYPE_URL
   /\ last.arg.value \in MalformedTexts)
    => last.out.r = "Err" /\ last.out.e.kind = "Json"

\* A JSON text followed by a stray bracket was rejected.
C7_Witness ==
  /\ Did({ValueAny}, "unpack")
  /\ last.arg = ProtoAny(JSON_TYPE_URL, <<"[", "1", "]", "]">>)
  /\ last.out = Err(JsonError("TrailingCharacters"))

\* The outcome of an (Option<N>, Option<W>) conversion, given the outcome
\* of the base conversion on the value inside.
Lifted(arg, base) ==
  IF ~arg.some THEN Ok(None)
  ELSE IF base.r = "Ok" THEN Ok(Some(base.v))
  ELSE base

\* C8: in the (Option<N>, Option<W>) impls of Value, DateTime<Utc> and
\* Json<T>, None packs and unpacks to Ok(None), Some(x) to Some of the base
\* conversion of x, and a failed base unpack comes back as it is, not as
\* None.
C8_OptionLifting ==
  /\ Did(OptionOptionImpls, "pack")
       => last.out = Lifted(last.arg, IF last.arg.some
                                      THEN base_pack(BaseOf(last.impl), last.arg.v) ELSE None)
  /\ Did(OptionOptionImpls, "unpack")
       => last.out = Lifted(last.arg, IF last.arg.some
                                      THEN base_unpack(BaseOf(last.impl), last.arg.v, chrono)
                                      ELSE None)
  /\ Did({OptionJsonAny}, "pack")
       => last.out = Lifted(last.arg, IF last.arg.some THEN Json_pack(last.arg.v) ELSE None)
  /\ Did({OptionJsonAny}, "unpack")
       => last.out = Lifted(last.arg, IF last.arg.some THEN Json_unpack(last.arg.v) ELSE None)

\* Some(envelope) with a broken payload was unpacked into an Option<Value>:
\* the error of the base unpack came back.
C8_Witness ==
  /\ Did({OptionOption(ValueAny)}, "unpack")
  /\ last.arg = Some(ProtoAny(JSON_TYPE_URL, <<"[", "1", ",", "]">>))
  /\ last.out.r = "Err"
  /\ last.out.e.kind = "Json"

\* C9: a native value that an unpack returned packs without error and
\* without panic, for the scalars, the timestamp and Value; the scalar
\* conversions return their argument and never fail, so a scalar packed and
\* unpacked is the scalar.
C9_PackAfterUnpack ==
  /\ DidAfter(SelfImpls \cup {DateTimeTimestamp, ValueAny}, "pack") => last.out.r = "Ok"
  /\ (last.dir # "none" /\ last.impl \in SelfImpls) => last.out = Ok(last.arg)
  /\ DidAfter(SelfImpls, "unpack") => last.out = Ok(prev.arg)

\* A Timestamp with a leap second's nanos was unpacked and the instant
\* packed again.
C9_Witness ==
  /\ DidAfter({DateTimeTimestamp}, "pack")
  /\ prev.arg = Timestamp(i64(59), 2 * NanosPerSec - 1)
  /\ last.out = Ok(prev.arg)

\* JSON texts of a shape that is not T's: a required field missing or of
\* another type, an optional field of another type, a sequence too short or
\* too long, and values that are no struct.
ShapeMismatchTexts ==
  { <<"{", "\"", "b", "\"", ":", "\"", "a", "\"", "}">>,
    <<"{", "}">>,
    <<"{", "\"", "a", "\"", ":", "-", "1", "}">>,
    <<"{", "\"", "a", "\"", ":", "\"", "1", "\"", "}">>,
    <<"{", "\"", "a", "\"", ":", "1", ".", "5", "}">>,
    <<"{", "\"", "a", "\"", ":", "1", ",", "\"", "b", "\"", ":", "2", "}">>,
    <<"[", "1", "]">>, <<"[", "1", ",", "n", "u", "l", "l", ",", "0", "]">>,
    <<"n", "u", "l", "l">>, <<"1">>, <<"\"", "a", "\"">> }

\* C10: a Json(x), x of the struct T, packs into an envelope tagged
\* "s2/json", and unpacking that envelope gives Json(x) back; an envelope
\* tagged "s2/json" whose JSON text has not T's shape unpacks to the error
\* Json, not to a T with defaults.
C10_JsonRoundTrip ==
  /\ Did({JsonAny}, "pack")
       => /\ last.out.r = "Ok"
          /\ last.out.v.type_url = "s2/json"
          /\ last.out.v.value = to_vec(to_value(last.arg.inner).v)
  /\ DidAfter({JsonAny}, "unpack") => last.out = Ok(prev.arg)
  /\ (/\ Did({JsonAny}, "unpack")
      /\ last.arg.type_url = JSON_TYPE_URL
      /\ last.arg.value \in ShapeMismatchTexts)
       => last.out.r = "Err" /\ last.out.e.kind = "Json"

\* A T whose optional field is absent went round inside a Json.
C10_Witness ==
  /\ DidAfter({JsonAny}, "unpack")
  /\ prev.arg = Json([a |-> 2, b |-> None])
  /\ prev.out = Ok(ProtoAny("s2/json", <<"{", "\"", "a", "\"", ":", "2", ",", "\"", "b", "\"", ":",
                                         "n", "u", "l", "l", "}">>))
  /\ last.out = Ok(prev.arg)

====
